---- MODULE Spec2Model ----
(***************************************************************************)
(* Model of custom_components/easyplant/__init__.py: the DailyHistory      *)
(* rolling per-day maximum and the Plant reading aggregation / threshold   *)
(* state machine that consumes it, for the plants that async_setup makes.  *)
(*                                                                         *)
(* Numbers are fixed-point: a model integer n stands for the Python number *)
(* n / Scale, so that float() keeps a fractional sensor state and int()    *)
(* truncates it.                                                           *)
(***************************************************************************)
EXTENDS Integers, Sequences, FiniteSets, TLC

VARIABLES
    brightness_history, \* the DailyHistory object (Plant._brightness_history)
    fed,                \* log of the add_measurement calls made by the driver
    config,             \* Plant._config
    sensors,            \* Plant._sensors: entity_id -> reading
    readings,           \* Plant._readings: reading -> record
    readings_keys,      \* insertion order of the keys of Plant._readings
    state,              \* Plant._state
    problems,           \* Plant._problems
    last,               \* the last call made and how it ended
    prev,               \* the update delivered by the last state_changed call
    backfill            \* whether _load_history_from_db has run, and what it fed

vars == <<brightness_history, fed, config, sensors, readings, readings_keys,
          state, problems, last, prev, backfill>>

plant_vars == <<config, sensors, readings, readings_keys, state, problems>>

-----------------------------------------------------------------------------
(* Bounds of the model *)

MaxLength == 2          \* largest DailyHistory.max_length tried
MaxDay == 3             \* calendar days are 1..MaxDay
MaxValue == 2           \* numeric measurements fed directly are 1..MaxValue
MaxFeeds == 3           \* number of direct add_measurement calls

-----------------------------------------------------------------------------
(* Python values: None, a number, a string *)

PyNone == [t |-> "None"]
PyNum(n) == [t |-> "num", n |-> n]
PyStr(s) == [t |-> "str", s |-> s]

IsNone(v) == v.t = "None"

\* isinstance(value, (int, float))
IsNumber(v) == v.t = "num"

\* Python truth value of None, a number or a string
Truthy(v) ==
    CASE v.t = "None" -> FALSE
      [] v.t = "num" -> v.n # 0
      [] v.t = "str" -> v.s # ""

\* the builtin max(a, b): the first argument wins a tie
PyMax2(a, b) == IF b > a THEN b ELSE a

\* the builtin max(iterable) over a non-empty collection of numbers
PyMax(S) == CHOOSE x \in S : \A y \in S : y <= x

Last(s) == s[Len(s)]

Range(s) == {s[i] : i \in 1..Len(s)}

-----------------------------------------------------------------------------
(* DailyHistory *)

\* a deque object, as opposed to None
Deque(items) == [t |-> "deque", items |-> items]

\* DailyHistory.__init__
DailyHistory(max_length) ==
    [max_length |-> max_length,
     _days |-> PyNone,
     _max_dict |-> <<>>,
     max |-> PyNone]

\* dict without one key
DictDel(d, k) == [x \in (DOMAIN d) \ {k} |-> d[x]]

\* dict with d[k] = v assigned
DictSet(d, k, v) == [x \in (DOMAIN d) \cup {k} |-> IF x = k THEN v ELSE d[x]]

\* _add_day evicting only once the queue is longer than max_length
_add_day_late(h, day, value) ==
    LET full == Len(h._days.items) > h.max_length
        items1 == IF full THEN Tail(h._days.items) ELSE h._days.items
        dict1 == IF full THEN DictDel(h._max_dict, Head(h._days.items))
                 ELSE h._max_dict
    IN [h |-> [h EXCEPT !._days = Deque(Append(items1, day)),
                        !._max_dict = DictSet(dict1, day, value.n)],
        exc |-> "none"]

\* _add_day evicting the oldest day without deleting its aggregate
_add_day_keep(h, day, value) ==
    LET full == Len(h._days.items) = h.max_length
        items1 == IF full THEN Tail(h._days.items) ELSE h._days.items
    IN [h |-> [h EXCEPT !._days = Deque(Append(items1, day)),
                        !._max_dict = DictSet(h._max_dict, day, value.n)],
        exc |-> "none"]

\* DailyHistory._add_day: the object after the call and the exception raised
_add_day(h, day, value) ==
    LET full == Len(h._days.items) = h.max_length IN
    IF full /\ h._days.items = <<>>
    THEN [h |-> h, exc |-> "IndexError"]
    ELSE IF full /\ Head(h._days.items) \notin DOMAIN h._max_dict
    THEN [h |-> [h EXCEPT !._days = Deque(Tail(h._days.items))],
          exc |-> "KeyError"]
    ELSE
      LET items1 == IF full THEN Tail(h._days.items) ELSE h._days.items
          dict1 == IF full THEN DictDel(h._max_dict, Head(h._days.items))
                   ELSE h._max_dict
          h1 == [h EXCEPT !._days = Deque(Append(items1, day)),
                          !._max_dict = dict1]
      IN IF ~IsNumber(value)
         THEN [h |-> h1, exc |-> "none"]
         ELSE [h |-> [h1 EXCEPT !._max_dict = DictSet(dict1, day, value.n)],
               exc |-> "none"]

\* max kept as a running maximum: self.max = max(self.max, day's aggregate)
recompute_max_running(r) ==
    IF r.exc # "none" \/ DOMAIN r.h._max_dict = {} THEN r
    ELSE [h |-> [r.h EXCEPT !.max =
                    PyNum(PyMax({r.h._max_dict[d] : d \in DOMAIN r.h._max_dict}
                                \cup (IF IsNumber(r.h.max) THEN {r.h.max.n} ELSE {})))],
          exc |-> "none"]

\* the last statement of add_measurement: self.max = max(self._max_dict.values())
recompute_max(r) ==
    IF r.exc # "none" THEN r
    ELSE IF DOMAIN r.h._max_dict = {}
    THEN [h |-> r.h, exc |-> "ValueError"]
    ELSE [h |-> [r.h EXCEPT !.max =
                    PyNum(PyMax({r.h._max_dict[d] : d \in DOMAIN r.h._max_dict}))],
          exc |-> "none"]

\* add_measurement merging an old sample into its day when that day is retained
add_measurement_merge(h, value, day) ==
    IF ~IsNumber(value) THEN [h |-> h, exc |-> "none"]
    ELSE IF IsNone(h._days)
    THEN recompute_max(_add_day([h EXCEPT !._days = Deque(<<>>)], day, value))
    ELSE IF day \in DOMAIN h._max_dict
    THEN recompute_max(
           [h |-> [h EXCEPT !._max_dict[day] = PyMax2(value.n, @)], exc |-> "none"])
    ELSE IF day > Last(h._days.items)
    THEN recompute_max(_add_day(h, day, value))
    ELSE recompute_max([h |-> h, exc |-> "none"])

\* add_measurement without the early return for a non-numeric value: the
\* value opens its day in _add_day, which records no aggregate for it
add_measurement_open(h, value, day) ==
    IF IsNone(h._days)
    THEN recompute_max(_add_day([h EXCEPT !._days = Deque(<<>>)], day, value))
    ELSE IF day = Last(h._days.items)
    THEN IF ~IsNumber(value) \/ day \notin DOMAIN h._max_dict
         THEN [h |-> h, exc |-> "none"]
         ELSE recompute_max(
                [h |-> [h EXCEPT !._max_dict[day] = PyMax2(value.n, @)],
                 exc |-> "none"])
    ELSE IF day > Last(h._days.items)
    THEN recompute_max(_add_day(h, day, value))
    ELSE recompute_max([h |-> h, exc |-> "none"])

\* add_measurement opening a day for every sample that is not for the
\* current day, older days included
add_measurement_unordered(h, value, day) ==
    IF ~IsNumber(value) THEN [h |-> h, exc |-> "none"]
    ELSE IF IsNone(h._days)
    THEN recompute_max(_add_day([h EXCEPT !._days = Deque(<<>>)], day, value))
    ELSE IF day = Last(h._days.items)
    THEN recompute_max(
           [h |-> [h EXCEPT !._max_dict[day] = PyMax2(value.n, @)], exc |-> "none"])
    ELSE recompute_max(_add_day(h, day, value))

\* add_measurement storing the latest value of the current day instead of
\* the larger of it and the aggregate
add_measurement_replace(h, value, day) ==
    IF ~IsNumber(value) THEN [h |-> h, exc |-> "none"]
    ELSE IF IsNone(h._days)
    THEN recompute_max(_add_day([h EXCEPT !._days = Deque(<<>>)], day, value))
    ELSE IF day = Last(h._days.items)
    THEN recompute_max(
           [h |-> [h EXCEPT !._max_dict[day] = value.n], exc |-> "none"])
    ELSE IF day > Last(h._days.items)
    THEN recompute_max(_add_day(h, day, value))
    ELSE recompute_max([h |-> h, exc |-> "none"])

\* add_measurement adding the value to the aggregate of the current day
add_measurement_sum(h, value, day) ==
    IF ~IsNumber(value) THEN [h |-> h, exc |-> "none"]
    ELSE IF IsNone(h._days)
    THEN recompute_max(_add_day([h EXCEPT !._days = Deque(<<>>)], day, value))
    ELSE IF day = Last(h._days.items)
    THEN recompute_max(
           [h |-> [h EXCEPT !._max_dict[day] = value.n + @], exc |-> "none"])
    ELSE IF day > Last(h._days.items)
    THEN recompute_max(_add_day(h, day, value))
    ELSE recompute_max([h |-> h, exc |-> "none"])

\* add_measurement recording a sample for a day before the current day at
\* the front of the history when that day is not retained
add_measurement_backdate(h, value, day) ==
    IF ~IsNumber(value) THEN [h |-> h, exc |-> "none"]
    ELSE IF IsNone(h._days)
    THEN recompute_max(_add_day([h EXCEPT !._days = Deque(<<>>)], day, value))
    ELSE IF day = Last(h._days.items)
    THEN recompute_max(
           [h |-> [h EXCEPT !._max_dict[day] = PyMax2(value.n, @)], exc |-> "none"])
    ELSE IF day > Last(h._days.items)
    THEN recompute_max(_add_day(h, day, value))
    ELSE IF day \notin DOMAIN h._max_dict
    THEN recompute_max(
           [h |-> [h EXCEPT !._days = Deque(<<day>> \o h._days.items),
                            !._max_dict = DictSet(h._max_dict, day, value.n)],
            exc |-> "none"])
    ELSE recompute_max([h |-> h, exc |-> "none"])

\* DailyHistory.add_measurement: the object after the call and the exception
\* raised ("none" when the call returns)
add_measurement(h, value, day) ==
    IF ~IsNumber(value) THEN [h |-> h, exc |-> "none"]
    ELSE IF IsNone(h._days)
    THEN recompute_max(_add_day([h EXCEPT !._days = Deque(<<>>)], day, value))
    ELSE IF h._days.items = <<>>
    THEN [h |-> h, exc |-> "IndexError"]
    ELSE
      LET current_day == Last(h._days.items) IN
      IF day = current_day
      THEN IF day \notin DOMAIN h._max_dict
           THEN [h |-> h, exc |-> "KeyError"]
           ELSE recompute_max(
                  [h |-> [h EXCEPT !._max_dict[day] = PyMax2(value.n, @)],
                   exc |-> "none"])
      ELSE IF day > current_day
      THEN recompute_max(_add_day(h, day, value))
      ELSE recompute_max([h |-> h, exc |-> "none"])

-----------------------------------------------------------------------------
(* Constants of the component and of the host platform *)

STATE_OK == "ok"
STATE_PROBLEM == "problem"
STATE_UNAVAILABLE == "unavailable"
STATE_UNKNOWN == "unknown"
PROBLEM_NONE == "none"
PREFIX_MIN == "min_"
PREFIX_MAX == "max_"
ATTR_UNIT_OF_MEASUREMENT == "unit_of_measurement"
READING_LIGHT_LUX == "light_lux"
READING_TEMP == "temp"
READING_ENV_HUMID == "env_humid"
READING_SOIL_MOIST == "soil_moist"
READING_SOIL_EC == "soil_ec"
READING_BATTERY == "battery"

\* the READINGS dict: its keys in order, each with its default unit
\* (TEMP_CELSIUS and the micro sign are written in ASCII)
READINGS ==
    << <<READING_LIGHT_LUX, "lux">>,
       <<READING_TEMP, "C">>,
       <<READING_ENV_HUMID, "%">>,
       <<READING_SOIL_MOIST, "%">>,
       <<READING_SOIL_EC, "uS/cm">>,
       <<READING_BATTERY, "%">> >>

-----------------------------------------------------------------------------
(* Strings and numbers *)

Scale == 2

\* Python's "sub in s" on strings
Contains(s, sub) ==
    \E i \in 0..(Len(s) - Len(sub)) : SubSeq(s, i + 1, i + Len(sub)) = sub

Digits == "0123456789"

IsDigit(c) == \E d \in 1..10 : SubSeq(Digits, d, d) = c

DigitVal(c) == (CHOOSE d \in 1..10 : SubSeq(Digits, d, d) = c) - 1

IsDigits(s) == Len(s) > 0 /\ \A i \in 1..Len(s) : IsDigit(SubSeq(s, i, i))

RECURSIVE NatOf(_)
NatOf(s) ==
    IF Len(s) = 0 THEN 0
    ELSE NatOf(SubSeq(s, 1, Len(s) - 1)) * 10 + DigitVal(SubSeq(s, Len(s), Len(s)))

\* the fractional parts the fixed-point numbers can hold
FractionOf(f) == CASE f = "" -> 0 [] f = ".0" -> 0 [] f = ".5" -> 1

Unsigned(s) == IF Len(s) > 0 /\ SubSeq(s, 1, 1) = "-" THEN SubSeq(s, 2, Len(s)) ELSE s

IntPart(u) ==
    IF Len(u) > 2 /\ SubSeq(u, Len(u) - 1, Len(u) - 1) = "."
    THEN SubSeq(u, 1, Len(u) - 2) ELSE u

FracPart(u) ==
    IF Len(u) > 2 /\ SubSeq(u, Len(u) - 1, Len(u) - 1) = "."
    THEN SubSeq(u, Len(u) - 1, Len(u)) ELSE ""

\* whether float(s) returns (decimal literals [-]digits[.0|.5]); float of
\* "unknown", "unavailable" and other words raises ValueError
IsFloatLiteral(s) ==
    /\ IsDigits(IntPart(Unsigned(s)))
    /\ FracPart(Unsigned(s)) \in {"", ".0", ".5"}

\* float(s) for a string float() accepts
float(s) ==
    LET u == Unsigned(s)
        m == NatOf(IntPart(u)) * Scale + FractionOf(FracPart(u))
    IN IF u = s THEN m ELSE 0 - m

\* int(x) of a float: truncation towards zero
int(x) == IF x >= 0 THEN (x \div Scale) * Scale ELSE 0 - (((0 - x) \div Scale) * Scale)

RECURSIVE join(_, _)
\* sep.join(list)
join(sep, list) ==
    IF Len(list) = 0 THEN ""
    ELSE IF Len(list) = 1 THEN list[1]
    ELSE list[1] \o sep \o join(sep, Tail(list))

\* dict.get(key) with the default None
DictGet(d, k) == IF k \in DOMAIN d THEN d[k] ELSE PyNone

EmptyDict == <<>>

-----------------------------------------------------------------------------
(* Inputs *)

MaxStamp == 2           \* sensor updates are stamped with days 1..MaxStamp

Entities ==
    {"sensor.p_light_lux", "sensor.p_light_lux_2", "sensor.p_battery_temp",
     "sensor.p_xyz"}

\* sensor states: the two sentinels and decimal literals
RawStates == {STATE_UNKNOWN, STATE_UNAVAILABLE, "-1.5", "5", "12.5"}

\* the attributes a sensor reports with its state: one sensor names its unit
Attributes(entity_id) ==
    IF entity_id = "sensor.p_light_lux_2"
    THEN [unit_of_measurement |-> "klx"] ELSE EmptyDict

\* the days a sensor stamps its states with: only the light sensors' stamps
\* are read
Stamps(entity_id) ==
    IF Contains(entity_id, READING_LIGHT_LUX) THEN 1..MaxStamp ELSE {1}

\* the state objects entity_id delivers: ignored states carry one timestamp
NewStates(entity_id) ==
    {[state |-> s, last_updated |-> d, attributes |-> Attributes(entity_id)] :
        s \in RawStates \ {STATE_UNKNOWN, STATE_UNAVAILABLE},
        d \in Stamps(entity_id)}
    \cup {[state |-> s, last_updated |-> 1, attributes |-> Attributes(entity_id)] :
            s \in {STATE_UNKNOWN, STATE_UNAVAILABLE}}

\* NewStates over the sensors of the model
NewStatesTable == [e \in Entities |-> NewStates(e)]

\* the contents of the host's state machine when entity_id has just changed
\* to new_state: the other sensors are all unavailable or all report a number
HassStates(entity_id, new_state) ==
    {[e \in Entities |-> IF e = entity_id THEN new_state.state ELSE o] :
        o \in IF new_state.state = STATE_UNAVAILABLE
              THEN {STATE_UNAVAILABLE, "5"} ELSE {"5"}}

\* bounds as validated by PLANT_SCHEMA (min_battery has a default)
Bounded ==
    [min_temp |-> PyNum(2 * Scale), max_temp |-> PyNum(10 * Scale),
     min_light_lux |-> PyNum(2 * Scale), max_light_lux |-> PyNum(10 * Scale),
     min_battery |-> PyNum(20 * Scale)]

ZeroBounded ==
    [min_temp |-> PyNum(0), max_temp |-> PyNum(0),
     min_light_lux |-> PyNum(0),
     min_battery |-> PyNum(20 * Scale)]

\* a plant that discovers its sensors and checks two days, and one with a
\* configured light sensor that checks one day.  A configuration is the
\* part of the dict that Plant reads: the entries of its "sensors" dict in
\* order (<<>> when the key is not set), the min_/max_ keys and check_days.
Configs ==
    {[sensors |-> <<>>, options |-> Bounded, check_days |-> 2],
     [sensors |-> << <<READING_LIGHT_LUX, "sensor.p_light_lux">> >>,
      options |-> ZeroBounded, check_days |-> 1]}

\* the bounds a row of the plant database holds: csv.DictReader yields every
\* value as a string
BoundStrings == {"2", "10"}

\* float over the bound strings of the model: the number, or None when float
\* raises ValueError
BoundTable ==
    [s \in BoundStrings |-> IF IsFloatLiteral(s) THEN PyNum(float(s)) ELSE PyNone]

\* dict(row) for a row of the plant database, before any plant's
\* configuration is merged into it: no "sensors" and no check_days key
\* (0 stands for the key not being set)
Row(options) == [sensors |-> <<>>, options |-> options, check_days |-> 0]

\* the database row of the species "ficus": its light bounds
Ficus ==
    Row([min_light_lux |-> PyStr("2"), max_light_lux |-> PyStr("10")])

\* a plant of a species: it discovers its sensors, checks one day and
\* sets a bound the species has none for
Seedling ==
    [sensors |-> <<>>,
     options |-> [min_temp |-> PyNum(9 * Scale), min_battery |-> PyNum(20 * Scale)],
     check_days |-> 1]

\* the configuration given to async_setup: the rows of the database file by
\* pid, and the plants in the order of the plants dict, each with the pid it
\* names ("" when it names none)
Alone(cfg) ==
    [database |-> EmptyDict, plants |-> <<[pid |-> "", config |-> cfg]>>]

\* two plants of the species "ficus", the second with the bounds of Bounded
Species ==
    [database |-> [pid \in {"ficus"} |-> Ficus],
     plants |-> <<[pid |-> "ficus", config |-> Seedling],
                 [pid |-> "ficus",
                  config |-> [sensors |-> <<>>, options |-> Bounded,
                              check_days |-> 2]]>>]

\* the component set up for one plant of Configs, or for the two of a species
Setups == {Alone(cfg) : cfg \in Configs} \cup {Species}

\* measurements fed to a DailyHistory directly: numbers and a non-number
Values == {PyNum(n * Scale) : n \in 1..MaxValue} \cup {PyNone}

NoCall == [op |-> "init", state |-> "", reading |-> "", ignored |-> FALSE,
           sibling_ok |-> FALSE, exc |-> "none"]

\* no update was delivered yet
NoUpdate == [entity_id |-> "", new_state |-> PyNone, repeated |-> FALSE]

\* the history was not loaded from the database yet
NotLoaded == [loaded |-> FALSE, samples |-> <<>>]

-----------------------------------------------------------------------------
(* Plant: sensor association *)

\* dict.get on the configuration
ConfigGet(cfg, key) == DictGet(cfg.options, key)

\* Plant._add_reading: the record stored under self._readings[reading]
_add_reading(cfg, reading, entity_id) ==
    [sensors |-> <<entity_id>>,
     state |-> PyNone,
     unit_of_measurement |->
        READINGS[CHOOSE i \in 1..Len(READINGS) : READINGS[i][1] = reading][2],
     minimum |-> ConfigGet(cfg, PREFIX_MIN \o reading),
     maximum |-> ConfigGet(cfg, PREFIX_MAX \o reading)]

\* the positions in READINGS of the names that occur in entity_id
Matches(entity_id) ==
    {i \in 1..Len(READINGS) : Contains(entity_id, READINGS[i][1])}

\* float over the sensor states of the model: the number, or None when
\* float raises ValueError
FloatTable ==
    [s \in RawStates |-> IF IsFloatLiteral(s) THEN PyNum(float(s)) ELSE PyNone]

\* Matches over the sensors of the model
MatchTable == [e \in Entities |-> Matches(e)]

\* _associate_sensor falling back to the last category of READINGS instead of
\* raising when no category name occurs in entity_id
_associate_sensor_default(cfg, p, entity_id) ==
    LET i == IF MatchTable[entity_id] = {} THEN Len(READINGS)
             ELSE CHOOSE m \in MatchTable[entity_id] :
                     \A n \in MatchTable[entity_id] : m <= n
        reading == READINGS[i][1]
        p1 == [p EXCEPT !.sensors = DictSet(p.sensors, entity_id, reading)]
    IN IF reading \in DOMAIN p.readings
       THEN [p |-> [p1 EXCEPT !.readings[reading].sensors = Append(@, entity_id)],
             reading |-> reading, exc |-> "none"]
       ELSE [p |-> [p1 EXCEPT
                      !.readings = DictSet(p.readings, reading,
                                           _add_reading(cfg, reading, entity_id)),
                      !.readings_keys = Append(p.readings_keys, reading)],
             reading |-> reading, exc |-> "none"]

\* Plant._associate_sensor on the plant p (its _sensors, _readings and the
\* key order of _readings): the plant after the call, the reading returned
\* and the exception raised
_associate_sensor(cfg, p, entity_id) ==
    IF MatchTable[entity_id] = {}
    THEN [p |-> p, reading |-> "", exc |-> "HomeAssistantError"]
    ELSE
      LET i == CHOOSE m \in MatchTable[entity_id] :
                  \A n \in MatchTable[entity_id] : m <= n
          reading == READINGS[i][1]
          p1 == [p EXCEPT !.sensors = DictSet(p.sensors, entity_id, reading)]
      IN IF reading \in DOMAIN p.readings
         THEN [p |-> [p1 EXCEPT !.readings[reading].sensors = Append(@, entity_id)],
               reading |-> reading, exc |-> "none"]
         ELSE [p |-> [p1 EXCEPT
                        !.readings = DictSet(p.readings, reading,
                                             _add_reading(cfg, reading, entity_id)),
                        !.readings_keys = Append(p.readings_keys, reading)],
               reading |-> reading, exc |-> "none"]

\* self._sensors.get(entity_id) or self._associate_sensor(entity_id)
resolve_reading(cfg, p, entity_id) ==
    IF entity_id \in DOMAIN p.sensors
    THEN [p |-> p, reading |-> p.sensors[entity_id], exc |-> "none"]
    ELSE _associate_sensor(cfg, p, entity_id)

-----------------------------------------------------------------------------
(* Plant: threshold checks and status *)

\* float(value) of a bound: a number configured for the plant, or a string
\* taken from the plant database; None when float raises ValueError
float_bound(value) == IF IsNumber(value) THEN value ELSE BoundTable[value.s]

\* Plant._check_min; max is self._brightness_history.max.  The result is
\* None, the problem string, or the exception raised.
_check_min(p, max, reading, st) ==
    LET min_value == p.readings[reading].minimum
        effective == IF reading = READING_LIGHT_LUX THEN max ELSE st
    IN IF ~Truthy(min_value) THEN PyNone
       ELSE IF IsNone(float_bound(min_value)) THEN [t |-> "raise", s |-> "ValueError"]
       ELSE IF ~IsNumber(effective) THEN [t |-> "raise", s |-> "TypeError"]
       ELSE IF effective.n < float_bound(min_value).n THEN PyStr(reading \o " low")
       ELSE PyNone

\* Plant._check_max
_check_max(p, reading, st) ==
    LET max_value == p.readings[reading].maximum
    IN IF ~Truthy(max_value) THEN PyNone
       ELSE IF IsNone(float_bound(max_value)) THEN [t |-> "raise", s |-> "ValueError"]
       ELSE IF ~IsNumber(st) THEN [t |-> "raise", s |-> "TypeError"]
       ELSE IF st.n > float_bound(max_value).n THEN PyStr(reading \o " high")
       ELSE PyNone

\* Plant._check_reading
_check_reading(p, max, reading) ==
    LET st == p.readings[reading].state IN
    IF st = PyStr(STATE_UNAVAILABLE)
    THEN PyStr(reading \o " " \o STATE_UNAVAILABLE)
    ELSE IF ~IsNone(st)
    THEN LET low == _check_min(p, max, reading, st)
         IN IF low.t = "raise" \/ Truthy(low) THEN low
            ELSE _check_max(p, reading, st)
    ELSE PyNone

\* [self._check_reading(reading) for reading in self._readings]
checked_readings(p, max) ==
    [i \in 1..Len(p.readings_keys) |-> _check_reading(p, max, p.readings_keys[i])]

\* list(filter(None.__ne__, checks)), as the list of problem strings
RECURSIVE filter_not_none(_)
filter_not_none(checks) ==
    IF Len(checks) = 0 THEN <<>>
    ELSE IF IsNone(Head(checks)) THEN filter_not_none(Tail(checks))
    ELSE <<Head(checks).s>> \o filter_not_none(Tail(checks))

\* the exception that ends the list comprehension of _update_state: the one
\* the first failing check raised
first_raised(checks) ==
    checks[CHOOSE i \in 1..Len(checks) :
              /\ checks[i].t = "raise"
              /\ \A j \in 1..(i - 1) : checks[j].t # "raise"].s

\* _update_state reporting only the first problem found
_update_state_first(p, max) ==
    LET checks == checked_readings(p, max) IN
    IF \E i \in 1..Len(checks) : checks[i].t = "raise"
    THEN [p |-> p, exc |-> first_raised(checks)]
    ELSE
      LET found == filter_not_none(checks) IN
      IF Len(found) > 0
      THEN [p |-> [p EXCEPT
                     !.state =
                        IF \A i \in 1..Len(found) : Contains(found[i], STATE_UNAVAILABLE)
                        THEN PyStr(STATE_UNAVAILABLE) ELSE PyStr(STATE_PROBLEM),
                     !.problems = found[1]],
            exc |-> "none"]
      ELSE [p |-> [p EXCEPT !.state = PyStr(STATE_OK), !.problems = PROBLEM_NONE],
            exc |-> "none"]

\* _update_state that resets the description but not the status when no
\* problem is found
_update_state_keep(p, max) ==
    LET checks == checked_readings(p, max) IN
    IF \E i \in 1..Len(checks) : checks[i].t = "raise"
    THEN [p |-> p, exc |-> first_raised(checks)]
    ELSE
      LET found == filter_not_none(checks) IN
      IF Len(found) > 0
      THEN [p |-> [p EXCEPT
                     !.state =
                        IF \A i \in 1..Len(found) : Contains(found[i], STATE_UNAVAILABLE)
                        THEN PyStr(STATE_UNAVAILABLE) ELSE PyStr(STATE_PROBLEM),
                     !.problems = join(", ", found)],
            exc |-> "none"]
      ELSE [p |-> [p EXCEPT !.problems = PROBLEM_NONE], exc |-> "none"]

\* Plant._update_state: the plant after the call and the exception raised
_update_state(p, max) ==
    LET checks == checked_readings(p, max) IN
    IF \E i \in 1..Len(checks) : checks[i].t = "raise"
    THEN [p |-> p, exc |-> first_raised(checks)]
    ELSE
      LET found == filter_not_none(checks) IN
      IF Len(found) > 0
      THEN [p |-> [p EXCEPT
                     !.state =
                        IF \A i \in 1..Len(found) : Contains(found[i], STATE_UNAVAILABLE)
                        THEN PyStr(STATE_UNAVAILABLE) ELSE PyStr(STATE_PROBLEM),
                     !.problems = join(", ", found)],
            exc |-> "none"]
      ELSE [p |-> [p EXCEPT !.state = PyStr(STATE_OK), !.problems = PROBLEM_NONE],
            exc |-> "none"]

-----------------------------------------------------------------------------
(* Plant: construction and the state_changed callback *)

RECURSIVE add_static_sensors(_, _, _)
\* the loop of Plant.__init__ over the statically configured sensors
add_static_sensors(cfg, p, static) ==
    IF Len(static) = 0 THEN p
    ELSE
      LET reading == Head(static)[1]
          entity_id == Head(static)[2]
      IN add_static_sensors(cfg,
            [p EXCEPT
               !.sensors = DictSet(p.sensors, entity_id, reading),
               !.readings = DictSet(p.readings, reading,
                                    _add_reading(cfg, reading, entity_id)),
               !.readings_keys = IF reading \in Range(p.readings_keys)
                                 THEN @ ELSE Append(@, reading)],
            Tail(static))

\* Plant.__init__, but for the DailyHistory
Plant(cfg) ==
    add_static_sensors(cfg,
        [sensors |-> EmptyDict, readings |-> EmptyDict, readings_keys |-> <<>>,
         state |-> PyNone, problems |-> PROBLEM_NONE],
        cfg.sensors)

\* hass.states.is_state(entity_id, state) on the content of the host's state machine
is_state(hass_states, entity_id, st) ==
    entity_id \in DOMAIN hass_states /\ hass_states[entity_id] = st

\* the guard with the test of is_state inverted: not ... is dropped
ignore_update_inverted(p, hass_states, reading, st) ==
    \/ st = STATE_UNKNOWN
    \/ /\ st = STATE_UNAVAILABLE
       /\ \E sensor \in DOMAIN p.readings[reading] :
             is_state(hass_states, sensor, STATE_UNAVAILABLE)

\* the guard without the test for the unknown state
ignore_update_no_unknown(p, hass_states, reading, st) ==
    /\ st = STATE_UNAVAILABLE
    /\ \E sensor \in DOMAIN p.readings[reading] :
          ~is_state(hass_states, sensor, STATE_UNAVAILABLE)

\* the guard of state_changed under which the update is ignored
ignore_update(p, hass_states, reading, st) ==
    \/ st = STATE_UNKNOWN
    \/ /\ st = STATE_UNAVAILABLE
       /\ \E sensor \in DOMAIN p.readings[reading] :
             ~is_state(hass_states, sensor, STATE_UNAVAILABLE)

\* state_changed feeding the history with the raw state string of the update
\* instead of the number stored in the record
state_changed_raw(cfg, p, h, hass_states, entity_id, new_state) ==
    LET a == resolve_reading(cfg, p, entity_id) IN
    IF a.exc # "none"
    THEN [p |-> a.p, h |-> h, reading |-> "", ignored |-> FALSE, exc |-> a.exc]
    ELSE IF ignore_update(a.p, hass_states, a.reading, new_state.state)
    THEN [p |-> a.p, h |-> h, reading |-> a.reading, ignored |-> TRUE, exc |-> "none"]
    ELSE IF IsNone(FloatTable[new_state.state])
    THEN [p |-> a.p, h |-> h, reading |-> a.reading, ignored |-> FALSE,
          exc |-> "ValueError"]
    ELSE
      LET reading == a.reading
          value == IF reading \notin {READING_TEMP, READING_ENV_HUMID}
                   THEN int(FloatTable[new_state.state].n)
                   ELSE FloatTable[new_state.state].n
          p1 == [a.p EXCEPT !.readings[reading].state = PyNum(value)]
          m == IF reading = READING_LIGHT_LUX
               THEN add_measurement(h, PyStr(new_state.state),
                                    new_state.last_updated)
               ELSE [h |-> h, exc |-> "none"]
          p2 == IF ATTR_UNIT_OF_MEASUREMENT \in DOMAIN new_state.attributes
                THEN [p1 EXCEPT !.readings[reading].unit_of_measurement =
                         new_state.attributes[ATTR_UNIT_OF_MEASUREMENT]]
                ELSE p1
          u == _update_state(p2, m.h.max)
      IN [p |-> u.p, h |-> m.h, reading |-> reading, ignored |-> FALSE,
          exc |-> u.exc]

\* Plant.state_changed on the plant p and the DailyHistory h: both after the
\* call, the reading resolved, whether the update was ignored and the
\* exception raised
state_changed(cfg, p, h, hass_states, entity_id, new_state) ==
    LET a == resolve_reading(cfg, p, entity_id) IN
    IF a.exc # "none"
    THEN [p |-> a.p, h |-> h, reading |-> "", ignored |-> FALSE, exc |-> a.exc]
    ELSE IF ignore_update(a.p, hass_states, a.reading, new_state.state)
    THEN [p |-> a.p, h |-> h, reading |-> a.reading, ignored |-> TRUE, exc |-> "none"]
    ELSE IF IsNone(FloatTable[new_state.state])
    THEN [p |-> a.p, h |-> h, reading |-> a.reading, ignored |-> FALSE,
          exc |-> "ValueError"]
    ELSE
      LET reading == a.reading
          value == IF reading \notin {READING_TEMP, READING_ENV_HUMID}
                   THEN int(FloatTable[new_state.state].n)
                   ELSE FloatTable[new_state.state].n
          p1 == [a.p EXCEPT !.readings[reading].state = PyNum(value)]
          m == IF reading = READING_LIGHT_LUX
               THEN add_measurement(h, p1.readings[reading].state,
                                    new_state.last_updated)
               ELSE [h |-> h, exc |-> "none"]
      IN IF m.exc # "none"
         THEN [p |-> p1, h |-> m.h, reading |-> reading, ignored |-> FALSE,
               exc |-> m.exc]
         ELSE
           LET p2 == IF ATTR_UNIT_OF_MEASUREMENT \in DOMAIN new_state.attributes
                     THEN [p1 EXCEPT !.readings[reading].unit_of_measurement =
                              new_state.attributes[ATTR_UNIT_OF_MEASUREMENT]]
                     ELSE p1
               u == _update_state(p2, m.h.max)
           IN [p |-> u.p, h |-> m.h, reading |-> reading, ignored |-> FALSE,
               exc |-> u.exc]

-----------------------------------------------------------------------------
(* async_setup: the plants of the component *)

\* plant_config.update(user_config): the keys of user_config replace those
\* of plant_config, the other keys stay (PLANT_SCHEMA sets check_days in
\* every user_config)
update(plant_config, user_config) ==
    [sensors |-> IF user_config.sensors = <<>> THEN plant_config.sensors
                 ELSE user_config.sensors,
     options |->
        [k \in DOMAIN plant_config.options \cup DOMAIN user_config.options |->
            IF k \in DOMAIN user_config.options THEN user_config.options[k]
            ELSE plant_config.options[k]],
     check_days |-> user_config.check_days]

RECURSIVE setup_plants(_, _, _)
\* the loop of async_setup over the plants: plantdb.get(pid, {}) is the dict
\* of the row when the database has one for the pid, and a new dict
\* otherwise; update() changes that dict in place, so plantdb holds the
\* merged dict afterwards and the next plant of the pid starts from it.
\* An entity is the Plant constructed, its DailyHistory and the pid whose
\* dict it holds as _config ("" when the dict is its own).
setup_plants(plantdb, plants, entities) ==
    IF Len(plants) = 0 THEN [plantdb |-> plantdb, entities |-> entities]
    ELSE
      LET user == Head(plants)
          found == user.pid \in DOMAIN plantdb
          plant_config == update(IF found THEN plantdb[user.pid] ELSE Row(EmptyDict),
                                 user.config)
          entity == [p |-> Plant(plant_config),
                     h |-> DailyHistory(plant_config.check_days),
                     config |-> plant_config,
                     pid |-> IF found THEN user.pid ELSE ""]
      IN setup_plants(IF found THEN DictSet(plantdb, user.pid, plant_config)
                      ELSE plantdb,
                      Tail(plants), Append(entities, entity))

\* async_setup: the entities as they are when it returns.  A plant whose
\* _config is the dict of a database row holds what the later plants of the
\* same pid merged into that dict; its readings and its DailyHistory are
\* those built from the dict as it was when the plant was constructed.
async_setup(setup) ==
    LET r == setup_plants(setup.database, setup.plants, <<>>)
    IN [i \in 1..Len(r.entities) |->
          IF r.entities[i].pid = "" THEN r.entities[i]
          ELSE [r.entities[i] EXCEPT !.config = r.plantdb[r.entities[i].pid]]]

-----------------------------------------------------------------------------
(* Plant: loading the brightness history from the recorder database *)

MaxRows == 2            \* rows the recorder holds for one entity_id

\* the keys of a reading record, in the order _add_reading inserts them
RecordKeys ==
    <<"sensors", "state", ATTR_UNIT_OF_MEASUREMENT, "minimum", "maximum">>

UpperCase == "ABCDEFGHIJKLMNOPQRSTUVWXYZ"

LowerCase == "abcdefghijklmnopqrstuvwxyz"

RECURSIVE lower(_)
\* str.lower() on ASCII strings
lower(s) ==
    IF Len(s) = 0 THEN ""
    ELSE LET c == SubSeq(s, 1, 1)
             c1 == IF \E i \in 1..26 : SubSeq(UpperCase, i, i) = c
                   THEN LET i == CHOOSE k \in 1..26 : SubSeq(UpperCase, k, k) = c
                        IN SubSeq(LowerCase, i, i)
                   ELSE c
         IN c1 \o lower(SubSeq(s, 2, Len(s)))

\* the entity_id values the queries filter on: entity_id.lower() for the
\* keys of the light record
QueriedIds == [i \in 1..Len(RecordKeys) |-> lower(RecordKeys[i])]

\* the states recorded in the database: one that int() accepts and one that
\* it rejects
RowStates == {"5", "12.5"}

\* int(s) of a string: the number, or None when int raises ValueError
\* (decimal literals [-]digits are accepted; "12.5" and words are not)
IntTable ==
    [s \in RowStates |->
        IF IsDigits(Unsigned(s))
        THEN PyNum(IF Unsigned(s) = s THEN NatOf(s) * Scale
                   ELSE 0 - NatOf(Unsigned(s)) * Scale)
        ELSE PyNone]

\* the rows of the states table
Rows == [state : RowStates, last_updated : 1..MaxStamp]

\* the rows recorded for one entity_id, ordered by last_updated
RowSeqs ==
    {<<>>} \cup
    UNION {{rows \in [1..n -> Rows] :
              \A i \in 1..(n - 1) : rows[i].last_updated <= rows[i + 1].last_updated} :
           n \in 1..MaxRows}

\* the entity_id values the database holds rows for: the light sensor only,
\* or every identifier it is queried for
RecordedIds ==
    {{"sensor.p_light_lux"},
     {"sensor.p_light_lux"} \cup Range(RecordKeys)}

\* the contents of the states table
Databases == UNION {[ids -> {rows}] : ids \in RecordedIds, rows \in RowSeqs \ {<<>>}}

\* execute(session.query(States).filter(States.entity_id == entity_id)
\*         .order_by(States.last_updated.asc()))
query(db, entity_id) == IF entity_id \in DOMAIN db THEN db[entity_id] ELSE <<>>

RECURSIVE load_states(_, _)
\* the loop over the rows of one query: r is the DailyHistory, the samples
\* passed to add_measurement so far and the exception that ended the load
load_states(r, states) ==
    IF Len(states) = 0 \/ r.exc # "none" THEN r
    ELSE
      LET row == Head(states)
          value == IntTable[row.state]
      IN IF IsNone(value) THEN load_states(r, Tail(states))
         ELSE
           LET m == add_measurement(r.h, value, row.last_updated)
               samples == Append(r.samples, [value |-> value, day |-> row.last_updated])
           IN load_states([h |-> m.h, samples |-> samples,
                           exc |-> IF m.exc = "ValueError" THEN "none" ELSE m.exc],
                          Tail(states))

RECURSIVE load_entities(_, _, _)
\* the loop over what iterating the light record yields
load_entities(r, db, entity_ids) ==
    IF Len(entity_ids) = 0 \/ r.exc # "none" THEN r
    ELSE load_entities(load_states(r, query(db, Head(entity_ids))), db,
                       Tail(entity_ids))

\* Plant._load_history_from_db: iterating self._readings["light_lux"] yields
\* the keys of the record; the plant itself is not changed
_load_history_from_db(p, h, db) ==
    LET r == IF READING_LIGHT_LUX \in DOMAIN p.readings
             THEN load_entities([h |-> h, samples |-> <<>>, exc |-> "none"],
                                db, QueriedIds)
             ELSE [h |-> h, samples |-> <<>>, exc |-> "none"]
    IN [p |-> p, h |-> r.h, samples |-> r.samples, exc |-> r.exc]

-----------------------------------------------------------------------------
(* Specifications *)

\* one entity of the component, before any callback ran
InitEntity(entity) ==
    /\ config = entity.config
    /\ sensors = entity.p.sensors
    /\ readings = entity.p.readings
    /\ readings_keys = entity.p.readings_keys
    /\ state = entity.p.state
    /\ problems = entity.p.problems
    /\ brightness_history = entity.h
    /\ fed = <<>>
    /\ last = NoCall
    /\ prev = NoUpdate
    /\ backfill = NotLoaded

\* a plant constructed on its own: Plant(hass, name, cfg)
InitPlant(cfg) ==
    InitEntity([p |-> Plant(cfg), h |-> DailyHistory(cfg.check_days),
                config |-> cfg, pid |-> ""])

\* the entities async_setup made from the setups
PlantEntities(setups) ==
    UNION {Range(async_setup(setup)) : setup \in setups}

\* any plant of the component when async_setup has returned
Init == \E entity \in PlantEntities(Setups) : InitEntity(entity)

ThePlant ==
    [sensors |-> sensors, readings |-> readings, readings_keys |-> readings_keys,
     state |-> state, problems |-> problems]

\* the callback state_changed(entity_id, _, new_state)
StateChanged(entity_id, new_state, hass_states) ==
    \E r \in {state_changed(config, ThePlant, brightness_history, hass_states,
                             entity_id, new_state)} :
       /\ sensors' = r.p.sensors
       /\ readings' = r.p.readings
       /\ readings_keys' = r.p.readings_keys
       /\ state' = r.p.state
       /\ problems' = r.p.problems
       /\ brightness_history' = r.h
       /\ last' = [op |-> "state_changed",
                   state |-> IF IsNumber(FloatTable[new_state.state])
                             THEN "numeric" ELSE new_state.state,
                   reading |-> r.reading, ignored |-> r.ignored,
                   sibling_ok |->
                      /\ r.reading # ""
                      /\ \E s \in Range(r.p.readings[r.reading].sensors) \ {entity_id} :
                            ~is_state(hass_states, s, STATE_UNAVAILABLE),
                   exc |-> r.exc]
       /\ UNCHANGED <<config, fed>>

Next ==
    \E entity_id \in Entities :
      \E new_state \in NewStatesTable[entity_id] :
        \E hass_states \in HassStates(entity_id, new_state) :
            /\ StateChanged(entity_id, new_state, hass_states)
            /\ UNCHANGED <<prev, backfill>>

Spec == Init /\ [][Next]_vars

\* the callback with the update it delivered remembered, so that a repeated
\* delivery can be recognised
Redelivery(entity_id, new_state, hass_states) ==
    /\ StateChanged(entity_id, new_state, hass_states)
    /\ prev' = [entity_id |-> entity_id, new_state |-> new_state,
                repeated |-> /\ prev.entity_id = entity_id
                             /\ prev.new_state = new_state]
    /\ UNCHANGED backfill

\* the sensors whose updates are delivered repeatedly: one per category and
\* one that cannot be associated
RepeatEntities == Entities \ {"sensor.p_light_lux_2"}

NextRepeat ==
    \E entity_id \in RepeatEntities :
      \E new_state \in NewStatesTable[entity_id] :
        \E hass_states \in HassStates(entity_id, new_state) :
            Redelivery(entity_id, new_state, hass_states)

SpecRepeat == Init /\ [][NextRepeat]_vars

\* a plant with one sensor configured for two categories
TwiceConfigured ==
    [sensors |-> << <<READING_LIGHT_LUX, "sensor.p_light_lux">>,
                    <<READING_TEMP, "sensor.p_light_lux">> >>,
     options |-> Bounded, check_days |-> 1]

\* a plant that discovers its sensors and checks one day
Discovering == [sensors |-> <<>>, options |-> Bounded, check_days |-> 1]

\* the plants that load their history
StartupConfigs == {Discovering, TwiceConfigured}

\* a plant like Seedling with a configured temperature sensor
Sapling ==
    [sensors |-> << <<READING_TEMP, "sensor.p_battery_temp">> >>,
     options |-> [min_temp |-> PyNum(2 * Scale), min_battery |-> PyNum(20 * Scale)],
     check_days |-> 1]

\* two plants of the species "ficus" that leave the light bounds to the
\* database; the second sets no sensors of its own
Nursery ==
    [database |-> [pid \in {"ficus"} |-> Ficus],
     plants |-> <<[pid |-> "ficus", config |-> Sapling],
                 [pid |-> "ficus", config |-> Seedling]>>]

StartupSetups == {Alone(cfg) : cfg \in StartupConfigs} \cup {Nursery}

InitStartup == \E entity \in PlantEntities(StartupSetups) : InitEntity(entity)

\* the sensors that report while the history is loaded
StartupEntities == {"sensor.p_light_lux", "sensor.p_battery_temp"}

\* the one run of _load_history_from_db, on the database contents db
LoadHistory(db) ==
    /\ ~backfill.loaded
    /\ \E r \in {_load_history_from_db(ThePlant, brightness_history, db)} :
          /\ sensors' = r.p.sensors
          /\ readings' = r.p.readings
          /\ readings_keys' = r.p.readings_keys
          /\ state' = r.p.state
          /\ problems' = r.p.problems
          /\ brightness_history' = r.h
          /\ backfill' = [loaded |-> TRUE, samples |-> r.samples]
          /\ last' = [NoCall EXCEPT !.op = "load_history", !.exc = r.exc]
    /\ UNCHANGED <<config, fed, prev>>

\* live updates, with the history loaded at any point between them
NextStartup ==
    \/ \E entity_id \in StartupEntities :
         \E new_state \in NewStatesTable[entity_id] :
           \E hass_states \in HassStates(entity_id, new_state) :
               /\ StateChanged(entity_id, new_state, hass_states)
               /\ UNCHANGED <<prev, backfill>>
    \/ \E db \in Databases : LoadHistory(db)

SpecStartup == InitStartup /\ [][NextStartup]_vars

\* the plants of Configs that retain more than one day, loading their
\* history between live updates
InitBackfill ==
    \E entity \in PlantEntities({Alone(cfg) : cfg \in {c \in Configs : c.check_days > 1}}) :
        InitEntity(entity)

\* the sensors that report while the history of these plants is loaded: the
\* light sensors, whose updates feed the DailyHistory
BackfillEntities == {e \in Entities : Contains(e, READING_LIGHT_LUX)}

\* live light updates, with the history loaded at any point between them
NextBackfill ==
    \/ \E entity_id \in BackfillEntities :
         \E new_state \in NewStatesTable[entity_id] :
           \E hass_states \in HassStates(entity_id, new_state) :
               /\ StateChanged(entity_id, new_state, hass_states)
               /\ UNCHANGED <<prev, backfill>>
    \/ \E db \in Databases : LoadHistory(db)

SpecBackfill == InitBackfill /\ [][NextBackfill]_vars

\* a free-standing DailyHistory(max_length), driven directly
InitHistory ==
    \E n \in 1..MaxLength :
        InitPlant([sensors |-> <<>>, options |-> EmptyDict, check_days |-> n])

\* one call DailyHistory.add_measurement(value, timestamp) on day timestamp.date()
AddMeasurement(value, day) ==
    /\ Len(fed) < MaxFeeds
    /\ \E r \in {add_measurement(brightness_history, value, day)} :
          /\ brightness_history' = r.h
          /\ last' = [NoCall EXCEPT !.op = "add_measurement", !.exc = r.exc]
    /\ fed' = Append(fed, [value |-> value, day |-> day])
    /\ UNCHANGED <<plant_vars, prev, backfill>>

NextHistory == \E value \in Values, day \in 1..MaxDay : AddMeasurement(value, day)

SpecHistory == InitHistory /\ [][NextHistory]_vars

-----------------------------------------------------------------------------
(* DailyHistory: properties *)

\* the retained days, oldest first
RetainedDays ==
    IF IsNone(brightness_history._days) THEN <<>>
    ELSE brightness_history._days.items

\* the per-day aggregates of the retained days
Aggregates ==
    {brightness_history._max_dict[d] :
        d \in Range(RetainedDays) \cap DOMAIN brightness_history._max_dict}

\* the step is a direct call of add_measurement
IsFeed == Len(fed') = Len(fed) + 1

\* the arguments of the call the step makes
FedNow == fed'[Len(fed')]

\* C1: after any sequence of add_measurement calls, max is the maximum of the
\* per-day aggregates of the retained days, and it is None exactly when no
\* numeric sample was ever fed (the first numeric sample is always retained)
C1_MaxOfAggregates ==
    /\ IF Aggregates = {} THEN IsNone(brightness_history.max)
       ELSE /\ IsNumber(brightness_history.max)
            /\ brightness_history.max.n \in Aggregates
            /\ \A a \in Aggregates : a <= brightness_history.max.n
    /\ IsNone(brightness_history.max)
          <=> ~\E i \in 1..Len(fed) : IsNumber(fed[i].value)

\* C1 witness: a non-numeric sample and then a larger numeric sample for an
\* earlier day were fed, and max is still the aggregate of the retained day
C1_Witness ==
    /\ \E i \in 1..Len(fed) : ~IsNumber(fed[i].value)
    /\ \E i \in 1..Len(fed) :
          /\ IsNumber(fed[i].value) /\ IsNumber(Last(fed).value)
          /\ Last(fed).day < fed[i].day
          /\ Last(fed).value.n > fed[i].value.n
    /\ IsNumber(brightness_history.max)
    /\ brightness_history.max.n = brightness_history._max_dict[Last(RetainedDays)]
    /\ brightness_history.max.n < Last(fed).value.n

\* the numeric samples fed so far arrived in non-decreasing day order
FedInOrder ==
    /\ \A i \in 1..Len(fed) : IsNumber(fed[i].value)
    /\ \A i, j \in 1..Len(fed) : i < j => fed[i].day <= fed[j].day

\* the values fed on the most recent max_length calendar days
WindowValues ==
    {fed[i].value.n : i \in {k \in 1..Len(fed) :
        fed[k].day > Last(fed).day - brightness_history.max_length}}

\* C2: for measurements fed in non-decreasing day order, max is the maximum
\* of the values whose day is within the most recent max_length calendar
\* days of the latest day seen
C2_CalendarWindowMax ==
    (Len(fed) > 0 /\ FedInOrder) =>
        /\ IsNumber(brightness_history.max)
        /\ brightness_history.max.n \in WindowValues
        /\ \A v \in WindowValues : v <= brightness_history.max.n

\* the example of C3: max_days = 3 and (10, day 1), (15, day 1), (5, day 2),
\* (20, day 3), (3, day 4)
RECURSIVE feed_all(_, _)
feed_all(h, samples) ==
    IF Len(samples) = 0 THEN h
    ELSE feed_all(add_measurement(h, PyNum(Head(samples)[1]), Head(samples)[2]).h,
                  Tail(samples))

C3_Scenario ==
    LET h == feed_all(DailyHistory(3),
                      << <<10, 1>>, <<15, 1>>, <<5, 2>>, <<20, 3>>, <<3, 4>> >>)
    IN h._days.items = <<2, 3, 4>> /\ h.max = PyNum(20)
       /\ DOMAIN h._max_dict = {2, 3, 4}

\* C3: at most max_length days are retained, and a sample that opens a new
\* day while max_length days are retained removes exactly the oldest day and
\* its aggregate and keeps every other day and aggregate
C3_EvictsOldest ==
    [][/\ Len(RetainedDays') <= brightness_history'.max_length
       /\ C3_Scenario
       /\ (/\ IsFeed
           /\ IsNumber(FedNow.value)
           /\ Len(RetainedDays) = brightness_history.max_length
           /\ FedNow.day > Last(RetainedDays))
          => /\ RetainedDays' = Append(Tail(RetainedDays), FedNow.day)
             /\ DOMAIN brightness_history'._max_dict
                  = (DOMAIN brightness_history._max_dict \ {Head(RetainedDays)})
                      \cup {FedNow.day}
             /\ \A d \in Range(Tail(RetainedDays)) :
                   brightness_history'._max_dict[d] = brightness_history._max_dict[d]
             /\ brightness_history'._max_dict[FedNow.day] = FedNow.value.n
      ]_vars

\* C3 witness: max_length > 1 days are retained after the oldest was evicted
C3_Witness ==
    /\ brightness_history.max_length > 1
    /\ Len(RetainedDays) = brightness_history.max_length
    /\ \E i \in 1..Len(fed) :
          IsNumber(fed[i].value) /\ fed[i].day < Head(RetainedDays)

\* C4: a sample whose day is before the most recently opened day changes
\* neither max, nor the retained days, nor any aggregate, and raises nothing
C4_OldSampleDropped ==
    [][(/\ IsFeed
        /\ Len(RetainedDays) > 0
        /\ FedNow.day < Last(RetainedDays))
       => /\ brightness_history' = brightness_history
          /\ last'.exc = "none"
      ]_vars

\* C4 witness: the last call fed a number for a day before the current day,
\* which another retained day also follows
C4_Witness ==
    /\ last.op = "add_measurement"
    /\ Len(fed) > 0
    /\ IsNumber(Last(fed).value)
    /\ Len(RetainedDays) = 2
    /\ Last(fed).day < Last(RetainedDays)
    /\ Last(fed).day \in Range(RetainedDays)

\* the day of the call is new: no day is recorded, or it follows the current day
FedDayIsNew ==
    IsNone(brightness_history._days) \/ FedNow.day > Last(RetainedDays)

\* C5 as claimed: a non-numeric sample raises nothing, leaves max alone and,
\* when its day is new, appends the day without recording an aggregate
C5_NonNumericOpensDay ==
    [][(IsFeed /\ ~IsNumber(FedNow.value))
       => /\ last'.exc = "none"
          /\ brightness_history'.max = brightness_history.max
          /\ FedDayIsNew =>
                /\ RetainedDays' = Append(RetainedDays, FedNow.day)
                /\ brightness_history'._max_dict = brightness_history._max_dict
      ]_vars

\* C5 amended: a non-numeric sample raises nothing and changes nothing; no
\* day is opened for it, whether its day is new or not
C5_NonNumericIgnored ==
    [][(IsFeed /\ ~IsNumber(FedNow.value))
       => /\ last'.exc = "none"
          /\ brightness_history' = brightness_history
      ]_vars

\* C5 witness: the last call fed a non-number for a day after the current day
C5_Witness ==
    /\ last.op = "add_measurement"
    /\ Len(fed) > 1
    /\ ~IsNumber(Last(fed).value)
    /\ Len(RetainedDays) > 0
    /\ Last(fed).day > Last(RetainedDays)

-----------------------------------------------------------------------------
(* Plant: properties *)

\* the last step was a state_changed call that resolved a reading for an
\* update in state st
Delivered(st) ==
    last.op = "state_changed" /\ last.state = st /\ last.reading # ""

\* the problem strings of the categories, in the iteration order of _readings
CollectedProblems ==
    filter_not_none(checked_readings(ThePlant, brightness_history.max))

\* C6: when the only sensor of a category delivers "unavailable", the
\* category's state becomes "unavailable", its problem "<category>
\* unavailable" is reported, and the status is unavailable if every problem
\* collected is an unavailable one
C6_OnlySensorUnavailable ==
    (Delivered(STATE_UNAVAILABLE) /\ Len(readings[last.reading].sensors) = 1)
    => /\ readings[last.reading].state = PyStr(STATE_UNAVAILABLE)
       /\ Contains(problems, last.reading \o " " \o STATE_UNAVAILABLE)
       /\ (\A i \in 1..Len(CollectedProblems) :
              Contains(CollectedProblems[i], STATE_UNAVAILABLE))
          => state = PyStr(STATE_UNAVAILABLE)

\* C7: "unavailable" from one sensor while another sensor of the same
\* category reports another state is ignored: the category's state and unit,
\* the DailyHistory, the status and the problem description stay as they
\* are, and no "unavailable" problem appears
C7_UnavailableSuppressed ==
    [][(/\ last'.op = "state_changed"
        /\ last'.state = STATE_UNAVAILABLE
        /\ last'.sibling_ok)
       => /\ last'.ignored /\ last'.exc = "none"
          /\ last'.reading \in DOMAIN readings
          /\ readings'[last'.reading].state = readings[last'.reading].state
          /\ readings'[last'.reading].unit_of_measurement
                = readings[last'.reading].unit_of_measurement
          /\ UNCHANGED <<brightness_history, state, problems>>
          /\ ~Contains(problems', STATE_UNAVAILABLE)
      ]_vars

\* C7 witness: of two sensors of a category one has delivered "unavailable"
\* while the other was not unavailable, and the category holds a number
C7_Witness ==
    /\ Delivered(STATE_UNAVAILABLE)
    /\ last.sibling_ok /\ last.ignored
    /\ Len(readings[last.reading].sensors) = 2
    /\ IsNumber(readings[last.reading].state)
    /\ ~IsNone(state)

\* the problem C8 expects for a category with the numeric state v
C8_Expected(reading, v) ==
    LET min_value == ConfigGet(config, PREFIX_MIN \o reading)
        max_value == ConfigGet(config, PREFIX_MAX \o reading)
    IN IF IsNumber(min_value) /\ v < min_value.n THEN PyStr(reading \o " low")
       ELSE IF IsNumber(max_value) /\ v > max_value.n THEN PyStr(reading \o " high")
       ELSE PyNone

\* C8: a category other than light with a numeric state v has the problem
\* "<category> low" if a minimum is configured and v is below it, otherwise
\* "<category> high" if a maximum is configured and v is above it, otherwise
\* none, for every bound value the configuration accepts
C8_BoundsChecked ==
    \A reading \in (DOMAIN readings) \ {READING_LIGHT_LUX} :
        IsNumber(readings[reading].state)
        => _check_reading(ThePlant, brightness_history.max, reading)
              = C8_Expected(reading, readings[reading].state.n)

RECURSIVE C9_Joined(_)
\* the strings of a non-empty list, separated by ", "
C9_Joined(list) ==
    IF Len(list) = 1 THEN list[1]
    ELSE C9_Joined(SubSeq(list, 1, Len(list) - 1)) \o ", " \o list[Len(list)]

\* C9: after an update that was not ignored, the status is ok and the
\* description "none" if no category has a problem; otherwise the status is
\* unavailable if every problem mentions "unavailable" and problem if not,
\* and the description joins the categories' problems in iteration order
C9_StatusFromProblems ==
    (last.op = "state_changed" /\ ~last.ignored /\ last.exc = "none")
    => IF Len(CollectedProblems) = 0
       THEN state = PyStr(STATE_OK) /\ problems = PROBLEM_NONE
       ELSE /\ state = IF \A i \in 1..Len(CollectedProblems) :
                             Contains(CollectedProblems[i], STATE_UNAVAILABLE)
                       THEN PyStr(STATE_UNAVAILABLE) ELSE PyStr(STATE_PROBLEM)
            /\ problems = C9_Joined(CollectedProblems)

\* C9 witness: two categories, iterated against the order of READINGS, each
\* have a problem after an update
C9_Witness ==
    /\ last.op = "state_changed" /\ ~last.ignored /\ last.exc = "none"
    /\ readings_keys = <<READING_TEMP, READING_LIGHT_LUX>>
    /\ Len(CollectedProblems) = 2
    /\ state = PyStr(STATE_PROBLEM)
    /\ problems = "temp low, light_lux high"

\* the step is a state_changed call for an update in the unknown state from
\* a sensor that is or can be associated
UnknownDelivered ==
    /\ last'.op = "state_changed"
    /\ last'.state = STATE_UNKNOWN
    /\ last'.reading # ""

\* C10 as claimed: an "unknown" update from an associable sensor raises
\* nothing and changes nothing: the categories' states and units, the set of
\* reading records, the DailyHistory, the status and the description
C10_UnknownChangesNothing ==
    [][UnknownDelivered
       => /\ last'.exc = "none"
          /\ DOMAIN readings' = DOMAIN readings
          /\ \A r \in DOMAIN readings :
                /\ readings'[r].state = readings[r].state
                /\ readings'[r].unit_of_measurement = readings[r].unit_of_measurement
          /\ UNCHANGED <<brightness_history, state, problems>>
      ]_vars

\* C10 amended: an "unknown" update raises nothing and changes no category's
\* state or unit, nor the DailyHistory, the status or the description; from
\* an associated sensor it changes nothing at all, and from a sensor not yet
\* associated its only effect is the association, which creates the record
\* of the sensor's category, without a state, with the category's default
\* unit and the bounds the configuration holds, if there is none yet
C10_UnknownOnlyAssociates ==
    [][UnknownDelivered
       => /\ last'.exc = "none" /\ last'.ignored
          /\ \A r \in DOMAIN readings :
                /\ r \in DOMAIN readings'
                /\ readings'[r].state = readings[r].state
                /\ readings'[r].unit_of_measurement = readings[r].unit_of_measurement
          /\ \A r \in (DOMAIN readings') \ DOMAIN readings :
                /\ r = last'.reading /\ IsNone(readings'[r].state)
                /\ Len(readings'[r].sensors) = 1
                /\ \E i \in 1..Len(READINGS) :
                      /\ READINGS[i][1] = r
                      /\ readings'[r].unit_of_measurement = READINGS[i][2]
                /\ readings'[r].minimum = DictGet(config.options, PREFIX_MIN \o r)
                /\ readings'[r].maximum = DictGet(config.options, PREFIX_MAX \o r)
          /\ (DOMAIN sensors' = DOMAIN sensors)
                => UNCHANGED <<sensors, readings, readings_keys>>
          /\ UNCHANGED <<brightness_history, state, problems>>
      ]_vars

\* C10 witness: an "unknown" update was ignored by a plant whose category of
\* that sensor holds a number and whose status is set
C10_Witness ==
    /\ Delivered(STATE_UNKNOWN)
    /\ last.ignored
    /\ IsNumber(readings[last.reading].state)
    /\ ~IsNone(state)

\* the sensors of the model whose identifier contains no category name
Unassociable ==
    {e \in Entities : \A i \in 1..Len(READINGS) : ~Contains(e, READINGS[i][1])}

\* C12: an update from a sensor that is not associated and whose identifier
\* contains no category name fails with an error raised to the caller, and
\* leaves the association map, the reading records, the DailyHistory, the
\* status and the problem description as they are
C12_UnassociableFails ==
    [][(/\ last'.op = "state_changed"
        /\ prev'.entity_id \in Unassociable \ DOMAIN sensors)
       => /\ last'.exc = "HomeAssistantError"
          /\ UNCHANGED <<sensors, readings, readings_keys,
                         brightness_history, state, problems>>
      ]_vars

\* C12 witness: the last update came from a sensor that could not be
\* associated and failed, on a plant that holds readings and a status
C12_Witness ==
    /\ last.op = "state_changed" /\ last.exc = "HomeAssistantError"
    /\ Unassociable # {} /\ Unassociable \cap DOMAIN sensors = {}
    /\ Len(readings_keys) = 2
    /\ state = PyStr(STATE_PROBLEM)

\* the three values of a computed status
StatusValues == {PyStr(STATE_OK), PyStr(STATE_PROBLEM), PyStr(STATE_UNAVAILABLE)}

\* C13 as claimed: in every state of a plant, from construction onward, the
\* status is one of ok, problem, unavailable
C13_StatusAlwaysSet == state \in StatusValues

\* C13 amended: the status is None from construction until the first update
\* that is neither ignored nor fails has been processed, and one of ok,
\* problem, unavailable from then on
C13_StatusSetByFirstUpdate ==
    /\ IsNone(state)
    /\ [][/\ state' \in StatusValues \cup {PyNone}
          /\ state \in StatusValues => state' \in StatusValues
          /\ (last'.op = "state_changed" /\ ~last'.ignored /\ last'.exc = "none")
             => state' \in StatusValues
          /\ (last'.op = "state_changed" /\ (last'.ignored \/ last'.exc # "none"))
             => state' = state
         ]_vars

\* C13 witness: a plant with two categories whose sensors were associated by
\* ignored updates and that has no status yet
C13_Witness ==
    /\ IsNone(state)
    /\ last.op = "state_changed" /\ last.ignored
    /\ Len(readings_keys) = 2

-----------------------------------------------------------------------------
(* DailyHistory: order of the days and per-day aggregates *)

\* C15: the retained days are strictly increasing from oldest to newest, so
\* no day is retained twice, and the most recently opened day never moves
\* backwards
C15_DaysIncreasing ==
    [][/\ \A i, j \in 1..Len(RetainedDays') :
             i < j => RetainedDays'[i] < RetainedDays'[j]
       /\ Len(RetainedDays) > 0
          => /\ Len(RetainedDays') > 0
             /\ Last(RetainedDays') >= Last(RetainedDays)
      ]_vars

\* C15 witness: two days are retained and the last sample fed, a number, was
\* for a day before both
C15_Witness ==
    /\ Len(RetainedDays) = 2
    /\ last.op = "add_measurement"
    /\ IsNumber(Last(fed).value)
    /\ Last(fed).day < Head(RetainedDays)

\* the i-th sample fed was accepted: it is a number and no number was fed
\* before it for a later day
Accepted(i) ==
    /\ IsNumber(fed[i].value)
    /\ \A j \in 1..(i - 1) : IsNumber(fed[j].value) => fed[j].day <= fed[i].day

\* the values accepted for day d
AcceptedValues(d) ==
    {fed[i].value.n : i \in {k \in 1..Len(fed) : Accepted(k) /\ fed[k].day = d}}

\* C16: the aggregate of every retained day is the maximum of the values
\* accepted for that day; a sample for the current day replaces the aggregate
\* by the larger of the two and leaves the other days' aggregates alone, and a
\* sample for a later day opens that day with the value as its aggregate
C16_AggregateIsDayMax ==
    [][/\ \A d \in Range(RetainedDays') :
            /\ d \in DOMAIN brightness_history'._max_dict
            /\ brightness_history'._max_dict[d] \in AcceptedValues(d)'
            /\ \A v \in AcceptedValues(d)' : v <= brightness_history'._max_dict[d]
       /\ (IsFeed /\ IsNumber(FedNow.value) /\ Len(RetainedDays) > 0)
          => /\ FedNow.day = Last(RetainedDays)
                => /\ RetainedDays' = RetainedDays
                   /\ brightness_history'._max_dict[FedNow.day]
                        = IF FedNow.value.n > brightness_history._max_dict[FedNow.day]
                          THEN FedNow.value.n
                          ELSE brightness_history._max_dict[FedNow.day]
                   /\ \A d \in Range(RetainedDays) \ {FedNow.day} :
                         brightness_history'._max_dict[d]
                            = brightness_history._max_dict[d]
             /\ FedNow.day > Last(RetainedDays)
                => /\ Last(RetainedDays') = FedNow.day
                   /\ brightness_history'._max_dict[FedNow.day] = FedNow.value.n
      ]_vars

\* C16 witness: the current day received a larger and then a smaller value
\* after an earlier day had been opened, and keeps the larger one
C16_Witness ==
    /\ Len(fed) = 3 /\ Len(RetainedDays) = 2
    /\ \A i \in 1..3 : IsNumber(fed[i].value)
    /\ fed[1].day < fed[2].day /\ fed[3].day = fed[2].day
    /\ fed[3].value.n < fed[2].value.n
    /\ brightness_history._max_dict[Last(RetainedDays)] = fed[2].value.n

-----------------------------------------------------------------------------
(* Plant: the light category and the rolling maximum *)

\* the last step was a light update that was stored
LightStored ==
    /\ last.op = "state_changed" /\ last.reading = READING_LIGHT_LUX
    /\ ~last.ignored /\ last.exc = "none"

\* C14: after a light update, with a minimum configured, "light_lux low" is
\* reported exactly when every retained aggregate is below the minimum,
\* whatever the value of the update; and when it is not reported, "light_lux
\* high" is reported exactly when a maximum is configured and the current
\* state is above it
C14_LightMinUsesHistory ==
    (LightStored /\ IsNumber(ConfigGet(config, PREFIX_MIN \o READING_LIGHT_LUX)))
    => LET minimum == ConfigGet(config, PREFIX_MIN \o READING_LIGHT_LUX).n
           maximum == ConfigGet(config, PREFIX_MAX \o READING_LIGHT_LUX)
           low == \A a \in Aggregates : a < minimum
       IN /\ Contains(problems, "light_lux low") <=> low
          /\ ~low => (Contains(problems, "light_lux high")
                        <=> /\ IsNumber(maximum)
                            /\ readings[READING_LIGHT_LUX].state.n > maximum.n)

\* C20: whenever the light category holds a number the rolling maximum is a
\* number too, so the minimum check of the light category never compares
\* None with the bound, also after a light update that the history rejected
C20_LightMaxNeverNone ==
    /\ (READING_LIGHT_LUX \in DOMAIN readings
        /\ IsNumber(readings[READING_LIGHT_LUX].state))
       => /\ IsNumber(brightness_history.max)
          /\ _check_min(ThePlant, brightness_history.max, READING_LIGHT_LUX,
                        readings[READING_LIGHT_LUX].state).t # "raise"
    /\ last.exc # "TypeError"

\* C20 witness: the light update stored last is above the rolling maximum,
\* so the history rejected it as older than its current day
C20_Witness ==
    /\ LightStored
    /\ IsNumber(readings[READING_LIGHT_LUX].state)
    /\ IsNumber(brightness_history.max)
    /\ readings[READING_LIGHT_LUX].state.n > brightness_history.max.n
    /\ Truthy(readings[READING_LIGHT_LUX].minimum)

-----------------------------------------------------------------------------
(* Plant: repeated delivery *)

\* the step delivers again the update that the previous call delivered
Redelivered ==
    /\ last.op = "state_changed" /\ last'.op = "state_changed"
    /\ prev'.entity_id = prev.entity_id
    /\ prev'.new_state = prev.new_state

\* C11: delivering the same update (sensor, state, timestamp) twice in a row
\* leaves, after the second delivery, the status, the problem description,
\* the categories' states and the DailyHistory as they were after the first
C11_RedeliveryIdempotent ==
    [][Redelivered
       => /\ UNCHANGED <<state, problems, brightness_history>>
          /\ DOMAIN readings' = DOMAIN readings
          /\ \A r \in DOMAIN readings : readings'[r].state = readings[r].state
          /\ last'.exc = last.exc
      ]_vars

\* C11 witness: a numeric light update that the history accepted was
\* delivered twice in a row to a plant that reports a problem
C11_Witness ==
    /\ prev.repeated
    /\ last.op = "state_changed" /\ ~last.ignored /\ last.exc = "none"
    /\ last.reading = READING_LIGHT_LUX
    /\ prev.entity_id # "" /\ IsNumber(FloatTable[prev.new_state.state])
    /\ prev.new_state.last_updated = Last(RetainedDays)
    /\ state = PyStr(STATE_PROBLEM)

-----------------------------------------------------------------------------
(* Plant: association of sensors *)

\* the first category, in the order of READINGS, whose name occurs in the
\* identifier of each sensor of the model ("" when none does)
FirstCategory ==
    [e \in Entities |->
        IF \E i \in 1..Len(READINGS) : Contains(e, READINGS[i][1])
        THEN READINGS[CHOOSE i \in 1..Len(READINGS) :
                        /\ Contains(e, READINGS[i][1])
                        /\ \A j \in 1..(i - 1) : ~Contains(e, READINGS[j][1])][1]
        ELSE ""]

\* the places of the sensor lists of records recs at which e is listed
Listings(recs, e) ==
    {<<r, i>> \in (DOMAIN recs) \X (1..Cardinality(Entities)) :
        i <= Len(recs[r].sensors) /\ recs[r].sensors[i] = e}

\* C17: a sensor that is not yet recognised is associated with the first
\* category whose name occurs in its identifier; an associated sensor keeps
\* its category; and every associated sensor is listed exactly once, in the
\* sensor list of the category it maps to
C17_AssociationUnique ==
    [][/\ \A e \in (DOMAIN sensors') \ DOMAIN sensors : sensors'[e] = FirstCategory[e]
       /\ \A e \in DOMAIN sensors : e \in DOMAIN sensors' /\ sensors'[e] = sensors[e]
       /\ \A e \in DOMAIN sensors' :
             /\ sensors'[e] \in DOMAIN readings'
             /\ Listings(readings', e) = {<<sensors'[e], 1>>}
                \/ Listings(readings', e) = {<<sensors'[e], 2>>}
      ]_vars

-----------------------------------------------------------------------------
(* Plant: the history loaded from the database between live updates *)

C19_StatusNeverStale ==
    ~IsNone(state)
    => LET u == _update_state(ThePlant, brightness_history.max)
       IN u.exc = "none" /\ state = u.p.state /\ problems = u.p.problems

-----------------------------------------------------------------------------
(* DailyHistory: days and aggregates *)

\* C21: the days that have an aggregate are exactly the retained days, so
\* once a day has been opened the aggregates over which max is recomputed
\* are not empty and the recomputation never fails
C21_AggregatesMatchDays ==
    /\ DOMAIN brightness_history._max_dict = Range(RetainedDays)
    /\ ~IsNone(brightness_history._days)
       => /\ RetainedDays # <<>>
          /\ DOMAIN brightness_history._max_dict # {}
    /\ last.exc = "none"

\* C21 witness: the history is full, a day fed earlier was evicted, and a
\* non-numeric value was fed for a day that is not retained
C21_Witness ==
    /\ Len(RetainedDays) = brightness_history.max_length
    /\ \E i \in 1..Len(fed) :
          IsNumber(fed[i].value) /\ fed[i].day < Head(RetainedDays)
    /\ \E i \in 1..Len(fed) :
          ~IsNumber(fed[i].value) /\ fed[i].day \notin Range(RetainedDays)

====
